---- MODULE Spec2Model ----
(***************************************************************************)
(* Model of nltools/data.py: the Brain_Data container (construction,       *)
(* slicing, mean, std, ttest, append, empty, similarity) and               *)
(* Brain_Data.predict.                                                     *)
(*                                                                         *)
(* Numbers are fixed-point: a value v stands for v / Unit.  Floating-point *)
(* results are rounded down to that precision.  NaN and the two infinities *)
(* are values of their own.  Every numpy array is a record                 *)
(*   [shape |-> <<..>>, e |-> <<..>>]                                      *)
(* holding its shape tuple and its elements in row-major order; a numpy    *)
(* scalar has shape << >>.  Arrays live in buffers (bufs); an instance's   *)
(* data field is the index of its buffer, so two instances alias exactly   *)
(* when they hold the same index.                                          *)
(***************************************************************************)
EXTENDS Integers, Sequences, FiniteSets, TLC

VARIABLES objs, bufs, last, pout, run

vars == <<objs, bufs, last, pout, run>>

\* ------------------------------------------------------------------ bounds

\* Instances the heap may hold.
MaxObjs == 3

\* Fixed-point unit: 100 stands for 1.0.
Unit == 100

\* ------------------------------------------------------------------ values

Num(x) == [k |-> "num", v |-> x]
NaN == [k |-> "nan", v |-> 0]
Inf(s) == [k |-> "inf", v |-> s]

IsNum(x) == x.k = "num"

Abs(i) == IF i < 0 THEN -i ELSE i
Sign(i) == IF i < 0 THEN -1 ELSE IF i > 0 THEN 1 ELSE 0

RECURSIVE ISqrtB(_, _, _)
ISqrtB(x, lo, hi) ==
    IF lo >= hi THEN lo
    ELSE LET mid == (lo + hi + 1) \div 2
         IN IF mid * mid <= x THEN ISqrtB(x, mid, hi) ELSE ISqrtB(x, lo, mid - 1)

\* floor(sqrt(x)) for 0 <= x < 2^30
ISqrt(x) == ISqrtB(x, 0, 32767)

RECURSIVE SumSeq(_)
SumSeq(s) == IF s = << >> THEN 0 ELSE Head(s) + SumSeq(Tail(s))

RECURSIVE ProdSeq(_)
ProdSeq(s) == IF s = << >> THEN 1 ELSE Head(s) * ProdSeq(Tail(s))

Range(s) == {s[i] : i \in 1..Len(s)}

\* IEEE sum of a sequence of values: NaN wins, opposite infinities give NaN.
AllNum(s) == \A i \in 1..Len(s) : IsNum(s[i])
HasNaN(s) == \E i \in 1..Len(s) : s[i].k = "nan"
HasInf(s, sg) == \E i \in 1..Len(s) : s[i] = Inf(sg)
Vals(s) == [i \in 1..Len(s) |-> s[i].v]

\* ------------------------------------------------------------------ arrays

Arr(shape, e) == [shape |-> shape, e |-> e]
ndim(a) == Len(a.shape)
size(a) == ProdSeq(a.shape)

\* np.array([])
EmptyArr == Arr(<<0>>, << >>)

\* number of columns / rows of a 2-D array; a 1-D array is one image
NCols(a) == a.shape[2]
NRows(a) == a.shape[1]
RowOf(a, i) == SubSeq(a.e, (i - 1) * NCols(a) + 1, i * NCols(a))
ColOf(a, j) == [i \in 1..NRows(a) |-> a.e[(i - 1) * NCols(a) + j]]

RECURSIVE Flatten(_)
Flatten(ss) == IF ss = << >> THEN << >> ELSE Head(ss) \o Flatten(Tail(ss))

\* a 2-D array from a sequence of rows of plain numbers, in Units
Mat(rows) ==
    Arr(<<Len(rows), Len(rows[1])>>,
        Flatten([i \in 1..Len(rows) |-> [j \in 1..Len(rows[i]) |-> Num(rows[i][j] * Unit)]]))

\* a 1-D array from a sequence of plain numbers, in Units
Vec(xs) == Arr(<<Len(xs)>>, [i \in 1..Len(xs) |-> Num(xs[i] * Unit)])

\* ------------------------------------------------------------------ inputs

None == [some |-> FALSE, v |-> << >>]
Some(x) == [some |-> TRUE, v |-> x]

\* What NiftiMasker.fit_transform hands the constructor: images x voxels.
InputData ==
    { Mat(<< <<4, -1>>, <<5, 0>>, <<6, 2>> >>),
      Mat(<< <<1, 3>>, <<2, 1>>, <<4, 0>>, <<1, 1>> >>),
      Mat(<< <<1, 2>>, <<3, 2>> >>),
      Mat(<< <<1, 0, 2>>, <<2, 0, 5>> >>) }

\* Y as the caller passes it: None or a list of labels.
InputY == { None, Some(<<1, 0, 1>>), Some(<<1, 0, 1, 0>>) }

\* X as the caller passes it: None or a DataFrame with named columns.
InputX == { None, Some([rows |-> 3, cols |-> 2]) }

\* index arguments of __getitem__
Ints == { [k |-> "int", lo |-> i, hi |-> 0] : i \in {-1, 0, 2} }
Slices == { [k |-> "slice", lo |-> 0, hi |-> 0], [k |-> "slice", lo |-> 0, hi |-> 2],
            [k |-> "slice", lo |-> 1, hi |-> 5] }
Indexes == Ints \cup Slices \cup { [k |-> "other", lo |-> 0, hi |-> 0] }

\* ------------------------------------------------------------------ instances

\* self.Y: a python list ([] when no labels were given), an ndarray, or the
\* numpy scalar an int index leaves.
YList == [py |-> "list", a |-> EmptyArr]
YArr(a) == [py |-> IF ndim(a) = 0 THEN "scalar" ELSE "ndarray", a |-> a]

\* self.X: a DataFrame (empty when no design was given) or, after empty(), an ndarray.
XFrame(r, c) == [py |-> "DataFrame", rows |-> r, cols |-> c]
XEmptyArr == [py |-> "ndarray", rows |-> 0, cols |-> 0]
XSize(x) == x.rows * x.cols

Brain_Data(d, y, x) == [data |-> d, Y |-> y, X |-> x]

\* the array an instance's data field refers to
DataOf(o) == bufs[objs[o].data]

\* Brain_Data.shape
shape(o) == DataOf(o).shape

NoCall == [op |-> "none", self |-> 0, arg |-> None, exc |-> "", ret |-> << >>,
           val |-> EmptyArr, warned |-> FALSE, raw |-> << >>, before |-> EmptyArr,
           fits |-> << >>]

\* An exception nobody catches ends the program, and the program is one
\* thread: a call is made while no exception was raised and no predict call
\* is under way.
Running == last.exc = "" /\ ~run.active

Raise(c, e) == [c EXCEPT !.exc = e]

\* a call that raised: nothing is returned, the heap is as it was
Raised(c, e) ==
    /\ last' = Raise(c, e)
    /\ UNCHANGED <<objs, bufs, pout, run>>

\* a call that returned one new instance whose data is the fresh array a
Returned(c, a, y, x) ==
    /\ bufs' = Append(bufs, a)
    /\ objs' = Append(objs, Brain_Data(Len(bufs) + 1, y, x))
    /\ last' = [c EXCEPT !.ret = <<Len(objs) + 1>>]
    /\ UNCHANGED <<pout, run>>

\* ------------------------------------------------------------------ __init__

\* lines 73-93: the Y and X size checks
InitError(d, y, x) ==
    IF y.some /\ NRows(d) # Len(y.v) THEN "ValueError: Y"
    ELSE IF x.some /\ NRows(d) # x.v.rows THEN "ValueError: X"
    ELSE ""

Construct ==
    /\ Running
    /\ Len(objs) < MaxObjs
    /\ \E d \in InputData, y \in InputY, x \in InputX :
         LET c == [NoCall EXCEPT !.op = "__init__", !.arg = <<d, y, x>>]
             e == InitError(d, y, x)
         IN IF e # "" THEN Raised(c, e)
            ELSE Returned(c, d,
                          IF y.some THEN YArr(Vec(y.v)) ELSE YList,
                          IF x.some THEN XFrame(x.v.rows, x.v.cols) ELSE XFrame(0, 0))

\* ------------------------------------------------------------------ __getitem__

\* position of python index i on an axis of length n, 0 when out of range
Pos(i, n) == IF i >= 0 /\ i < n THEN i + 1 ELSE IF i < 0 /\ -i <= n THEN n + i + 1 ELSE 0

Min(a, b) == IF a < b THEN a ELSE b

\* the 1-based positions a slice lo:hi selects on an axis of length n
SliceLo(ix, n) == Min(ix.lo, n) + 1
SliceHi(ix, n) == Min(ix.hi, n)
SliceLen(ix, n) == IF SliceHi(ix, n) >= SliceLo(ix, n) THEN SliceHi(ix, n) - SliceLo(ix, n) + 1 ELSE 0

\* lines 114-119: self.data[index,:]
getitem_data(a, ix) ==
    IF ix.k = "other" THEN [exc |-> "TypeError", a |-> EmptyArr]
    ELSE IF ndim(a) < 2 THEN [exc |-> "IndexError", a |-> EmptyArr]
    ELSE IF ix.k = "int"
         THEN IF Pos(ix.lo, NRows(a)) = 0 THEN [exc |-> "IndexError", a |-> EmptyArr]
              ELSE [exc |-> "", a |-> Arr(<<NCols(a)>>, RowOf(a, Pos(ix.lo, NRows(a))))]
    ELSE [exc |-> "",
          a |-> Arr(<<SliceLen(ix, NRows(a)), NCols(a)>>,
                    SubSeq(a.e, (SliceLo(ix, NRows(a)) - 1) * NCols(a) + 1,
                           SliceHi(ix, NRows(a)) * NCols(a)))]

\* lines 120-121: new.Y
getitem_Y(y, ix) ==
    IF y.py = "list" THEN [exc |-> "AttributeError", Y |-> y]
    ELSE IF size(y.a) = 0 THEN [exc |-> "", Y |-> y]
    ELSE IF y.py = "scalar" THEN [exc |-> "IndexError", Y |-> y]
    ELSE IF ix.k = "int"
         THEN IF Pos(ix.lo, Len(y.a.e)) = 0 THEN [exc |-> "IndexError", Y |-> y]
              ELSE [exc |-> "", Y |-> YArr(Arr(<< >>, <<y.a.e[Pos(ix.lo, Len(y.a.e))]>>))]
    ELSE [exc |-> "",
          Y |-> YArr(Arr(<<SliceLen(ix, Len(y.a.e))>>,
                         SubSeq(y.a.e, SliceLo(ix, Len(y.a.e)), SliceHi(ix, Len(y.a.e)))))]

\* lines 122-126: new.X
getitem_X(x, ix) ==
    IF XSize(x) = 0 THEN [exc |-> "", X |-> x]
    ELSE IF x.py = "DataFrame"
         THEN IF ix.k = "int" THEN [exc |-> "KeyError", X |-> x]
              ELSE [exc |-> "", X |-> XFrame(SliceLen(ix, x.rows), x.cols)]
    ELSE [exc |-> "IndexError", X |-> x]

GetItem ==
    /\ Running
    /\ Len(objs) < MaxObjs
    /\ \E o \in 1..Len(objs), ix \in Indexes :
         LET c == [NoCall EXCEPT !.op = "__getitem__", !.self = o, !.arg = ix,
                                 !.before = DataOf(o)]
             d == getitem_data(DataOf(o), ix)
             y == getitem_Y(objs[o].Y, ix)
             x == getitem_X(objs[o].X, ix)
         IN IF d.exc # "" THEN Raised(c, d.exc)
            ELSE IF y.exc # "" THEN Raised(c, y.exc)
            ELSE IF x.exc # "" THEN Raised(c, x.exc)
            ELSE Returned(c, d.a, y.Y, x.X)

\* ------------------------------------------------------------------ arithmetic

VAdd(a, b) ==
    IF a.k = "nan" \/ b.k = "nan" THEN NaN
    ELSE IF a.k = "inf" /\ b.k = "inf" THEN (IF a.v = b.v THEN a ELSE NaN)
    ELSE IF a.k = "inf" THEN a
    ELSE IF b.k = "inf" THEN b
    ELSE Num(a.v + b.v)

VMul(a, b) ==
    IF a.k = "nan" \/ b.k = "nan" THEN NaN
    ELSE IF a.k = "inf" \/ b.k = "inf"
         THEN (IF Sign(a.v) * Sign(b.v) = 0 THEN NaN ELSE Inf(Sign(a.v) * Sign(b.v)))
    ELSE Num((a.v * b.v) \div Unit)

RECURSIVE VSum(_)
VSum(s) == IF s = << >> THEN Num(0) ELSE VAdd(Head(s), VSum(Tail(s)))

\* np.mean of one column
MeanV(s) ==
    IF Len(s) = 0 THEN NaN
    ELSE IF VSum(s).k = "num" THEN Num(VSum(s).v \div Len(s))
    ELSE VSum(s)

SumSq(s) == SumSeq([i \in 1..Len(s) |-> s[i].v * s[i].v])

\* n * sum(x^2) - sum(x)^2 = n^2 * (population variance)
Dev(s) == Len(s) * SumSq(s) - SumSeq(Vals(s)) * SumSeq(Vals(s))

\* np.std of one column (population standard deviation)
StdV(s) ==
    IF Len(s) = 0 \/ ~AllNum(s) THEN NaN
    ELSE Num(ISqrt(Dev(s)) \div Len(s))

\* scipy.stats.ttest_1samp of one column against 0: the t statistic
\*   t = mean / sqrt(var(ddof=1) / n) = S * sqrt(n-1) / sqrt(n*sum(x^2) - S^2)
TStat(s) ==
    LET n == Len(s)
        S == SumSeq(Vals(s))
    IN IF n <= 1 \/ ~AllNum(s) THEN NaN
       ELSE IF Dev(s) = 0 THEN (IF S = 0 THEN NaN ELSE Inf(Sign(S)))
       ELSE Num(Sign(S) * ((Abs(S) * ISqrt(Unit * Unit * (n - 1))) \div ISqrt(Dev(s))))

\* ... and its two-sided p-value.  scipy evaluates the Student-t survival
\* function; the model keeps what thresholding depends on: p is 1 at t = 0
\* and falls to 0 as |t| grows, p = 1 / (1 + t^2 / df), NaN where t is NaN.
PValue(s) ==
    LET n == Len(s)
        S == SumSeq(Vals(s))
    IN IF n <= 1 \/ ~AllNum(s) THEN NaN
       ELSE IF Dev(s) = 0 THEN (IF S = 0 THEN NaN ELSE Num(0))
       ELSE Num((Unit * Dev(s)) \div (Dev(s) + S * S))

\* axis 0: the columns of a 2-D array, or the values of a 1-D array as one
\* column
Columns0(a) ==
    IF ndim(a) = 2 THEN [j \in 1..NCols(a) |-> ColOf(a, j)] ELSE <<a.e>>

\* the array a reduction over axis 0 leaves: one value per column of a 2-D
\* array, a single value for a 1-D array
Reduced0(a, vals) == Arr(IF ndim(a) = 2 THEN <<NCols(a)>> ELSE << >>, vals)

\* np.mean(a, axis=0)
np_mean(a) == Reduced0(a, [j \in 1..Len(Columns0(a)) |-> MeanV(Columns0(a)[j])])

\* np.std(a, axis=0)
np_std(a) == Reduced0(a, [j \in 1..Len(Columns0(a)) |-> StdV(Columns0(a)[j])])

\* ttest_1samp(a, 0, 0): the t statistics and the p-values
ttest_t(a) == Reduced0(a, [j \in 1..Len(Columns0(a)) |-> TStat(Columns0(a)[j])])
ttest_p(a) == Reduced0(a, [j \in 1..Len(Columns0(a)) |-> PValue(Columns0(a)[j])])

\* ------------------------------------------------------------------ mean, std

\* lines 150-152 and 165-167; axis 0 of a numpy scalar does not exist, and
\* numpy releases differ on whether the reduction raises or returns it
Mean ==
    /\ Running
    /\ Len(objs) < MaxObjs
    /\ \E o \in 1..Len(objs), strict \in BOOLEAN :
         LET c == [NoCall EXCEPT !.op = "mean", !.self = o, !.before = DataOf(o)]
         IN IF ndim(DataOf(o)) = 0
            THEN IF strict THEN Raised(c, "ValueError")
                 ELSE Returned(c, DataOf(o), objs[o].Y, objs[o].X)
            ELSE /\ strict
                 /\ Returned(c, np_mean(DataOf(o)), objs[o].Y, objs[o].X)

Std ==
    /\ Running
    /\ Len(objs) < MaxObjs
    /\ \E o \in 1..Len(objs), strict \in BOOLEAN :
         LET c == [NoCall EXCEPT !.op = "std", !.self = o, !.before = DataOf(o)]
         IN IF ndim(DataOf(o)) = 0
            THEN IF strict THEN Raised(c, "ValueError")
                 ELSE Returned(c, Arr(<< >>, <<StdV(DataOf(o).e)>>), objs[o].Y, objs[o].X)
            ELSE /\ strict
                 /\ Returned(c, np_std(DataOf(o)), objs[o].Y, objs[o].X)

\* ------------------------------------------------------------------ empty, isempty

\* lines 321-329
Empty ==
    /\ Running
    /\ Len(objs) < MaxObjs
    /\ \E o \in 1..Len(objs), data \in BOOLEAN, Y \in BOOLEAN, X \in BOOLEAN :
         LET c == [NoCall EXCEPT !.op = "empty", !.self = o, !.arg = <<data, Y, X>>,
                                 !.before = DataOf(o)]
         IN Returned(c,
                     IF data THEN EmptyArr ELSE DataOf(o),
                     IF Y THEN YArr(EmptyArr) ELSE objs[o].Y,
                     IF X THEN XEmptyArr ELSE objs[o].X)

\* lines 338-350: "True", "False", or the exception the unbound local raises
\* when data is neither an ndarray nor a list (a numpy scalar)
isempty(a) ==
    IF ndim(a) = 0 THEN "UnboundLocalError"
    ELSE IF size(a) # 0 THEN "False" ELSE "True"

\* ------------------------------------------------------------------ append

\* python's  1 & n
BitAnd1(n) == n % 2

\* lines 300-310: the voxel-count checks as python parses them.  & binds
\* tighter than the comparisons, so  len(a)==1 & len(b)==1  is the chain
\* len(a) == (1 & len(b)) == 1, and so on.  The result is "" when no check
\* raises, else the exception.
append_check(sa, sb) ==
    LET la == Len(sa)
        lb == Len(sb)
    IN IF la = BitAnd1(lb) /\ BitAnd1(lb) = 1
       THEN (IF sa[1] # sb[1] THEN "ValueError" ELSE "")
       ELSE IF la = BitAnd1(lb) /\ BitAnd1(lb) > 1
       THEN (IF sa[1] # sb[2] THEN "ValueError" ELSE "")
       ELSE IF la > BitAnd1(lb) /\ BitAnd1(lb) = 1
       THEN (IF sa[2] # sb[1] THEN "ValueError" ELSE "")
       ELSE IF la < 2 \/ lb < 2 THEN "IndexError"
       ELSE IF sa[2] # sb[2] THEN "ValueError"
       ELSE ""

\* np.atleast_2d
AtLeast2d(a) ==
    IF ndim(a) = 2 THEN a
    ELSE IF ndim(a) = 1 THEN Arr(<<1, a.shape[1]>>, a.e)
    ELSE Arr(<<1, 1>>, a.e)

\* line 312: np.vstack([self.data, data.data]); numpy raises ValueError
\* when the column counts differ
vstack(a, b) ==
    LET a2 == AtLeast2d(a)
        b2 == AtLeast2d(b)
    IN IF NCols(a2) # NCols(b2) THEN [exc |-> "ValueError", a |-> EmptyArr]
       ELSE [exc |-> "", a |-> Arr(<<NRows(a2) + NRows(b2), NCols(a2)>>, a2.e \o b2.e)]

\* lines 295-314.  When self is empty the result takes data's own array
\* (line 298): no new buffer.
AppendTo ==
    /\ Running
    /\ Len(objs) < MaxObjs
    /\ \E o \in 1..Len(objs), d \in 1..Len(objs) :
         LET c == [NoCall EXCEPT !.op = "append", !.self = o, !.arg = d,
                                 !.before = DataOf(o)]
             em == isempty(DataOf(o))
             chk == append_check(shape(o), shape(d))
             st == vstack(DataOf(o), DataOf(d))
         IN IF em = "UnboundLocalError" THEN Raised(c, em)
            ELSE IF em = "True"
                 THEN /\ objs' = Append(objs, Brain_Data(objs[d].data, objs[o].Y, objs[o].X))
                      /\ last' = [c EXCEPT !.ret = <<Len(objs) + 1>>]
                      /\ UNCHANGED <<bufs, pout, run>>
            ELSE IF chk # "" THEN Raised(c, chk)
            ELSE IF st.exc # "" THEN Raised(c, st.exc)
            ELSE Returned(c, st.a, objs[o].Y, objs[o].X)

\* ------------------------------------------------------------------ ttest

\* threshold_dict arguments: None, {'unc': c}, {'fdr': q}, a dict with
\* neither key, and something that is not a dict
Thresholds ==
    { [k |-> "None", v |-> 0], [k |-> "unc", v |-> (5 * Unit) \div 100],
      [k |-> "unc", v |-> (50 * Unit) \div 100], [k |-> "fdr", v |-> (5 * Unit) \div 100],
      [k |-> "other", v |-> 0], [k |-> "notdict", v |-> 0] }

\* python's  p > c  on floats: false when p is NaN
Greater(p, c) == p.k = "num" /\ p.v > c

\* the mask with the comparison turned round
mask_unc_below(t, p, cutoff) ==
    Arr(t.shape, [i \in 1..Len(t.e) |->
                    IF p.e[i].k = "num" /\ p.e[i].v < cutoff THEN NaN ELSE t.e[i]])

\* line 274: t.data[np.where(p.data > cutoff)] = np.nan
mask_unc(t, p, cutoff) ==
    Arr(t.shape, [i \in 1..Len(t.e) |-> IF Greater(p.e[i], cutoff) THEN NaN ELSE t.e[i]])

\* lines 270-278 on the arrays of line 268
threshold(t, p, th) ==
    IF th.k = "None" THEN [exc |-> "", t |-> t]
    ELSE IF th.k = "notdict" THEN [exc |-> "ValueError", t |-> t]
    ELSE IF th.k = "unc"
         THEN IF ndim(t) = 0 THEN [exc |-> "TypeError", t |-> t]
              ELSE [exc |-> "", t |-> mask_unc(t, p, th.v)]
    ELSE [exc |-> "", t |-> t]

\* lines 266-282: two new instances, t and p
TTest ==
    /\ Running
    /\ Len(objs) + 2 <= MaxObjs
    /\ \E o \in 1..Len(objs), th \in Thresholds :
         LET c == [NoCall EXCEPT !.op = "ttest", !.self = o, !.arg = th,
                                 !.before = DataOf(o)]
             t0 == ttest_t(DataOf(o))
             p0 == ttest_p(DataOf(o))
             r == threshold(t0, p0, th)
         IN IF ndim(DataOf(o)) = 0 THEN Raised(c, "IndexError")
            ELSE IF r.exc # "" THEN Raised([c EXCEPT !.raw = <<t0, p0>>], r.exc)
            ELSE /\ bufs' = bufs \o <<r.t, p0>>
                 /\ objs' = objs \o <<Brain_Data(Len(bufs) + 1, objs[o].Y, objs[o].X),
                                      Brain_Data(Len(bufs) + 2, objs[o].Y, objs[o].X)>>
                 /\ last' = [c EXCEPT !.ret = <<Len(objs) + 1, Len(objs) + 2>>,
                                      !.raw = <<t0, p0>>]
                 /\ UNCHANGED <<pout, run>>

\* ------------------------------------------------------------------ similarity

Methods == {"dot_product", "correlation", "cosine"}

\* np.dot of one row with a vector
Dot(r, v) == VSum([i \in 1..Len(r) |-> VMul(r[i], v[i])])

\* line 378: np.dot(self.data, image.data) for 2-D self.data
dot(a, b) ==
    IF ndim(b) = 1
    THEN IF NCols(a) # b.shape[1] THEN [exc |-> "ValueError", a |-> EmptyArr]
         ELSE [exc |-> "", a |-> Arr(<<NRows(a)>>, [i \in 1..NRows(a) |-> Dot(RowOf(a, i), b.e)])]
    ELSE IF NCols(a) # NRows(b) THEN [exc |-> "ValueError", a |-> EmptyArr]
         ELSE [exc |-> "",
               a |-> Arr(<<NRows(a), NCols(b)>>,
                         [x \in 1..(NRows(a) * NCols(b)) |->
                            Dot(RowOf(a, ((x - 1) \div NCols(b)) + 1),
                                ColOf(b, ((x - 1) % NCols(b)) + 1))])]

\* lines 365-384.  image is an instance or None.  The correlation loop calls
\* pearson, a name the module neither defines nor imports.
similarity(a, image, b, method) ==
    LET c0 == [exc |-> "", val |-> EmptyArr, warned |-> FALSE]
    IN IF ~image THEN [c0 EXCEPT !.exc = "ValueError"]
       ELSE IF ndim(a) < 2 \/ ndim(b) < 1 THEN [c0 EXCEPT !.exc = "IndexError"]
       ELSE LET w == a.shape[2] # b.shape[1]
            IN IF method = "dot_product"
               THEN [exc |-> dot(a, b).exc, val |-> dot(a, b).a, warned |-> w]
               ELSE IF method = "correlation"
               THEN IF NRows(a) > 0 THEN [exc |-> "NameError", val |-> EmptyArr, warned |-> w]
                    ELSE [exc |-> "", val |-> EmptyArr, warned |-> w]
               ELSE [exc |-> "UnboundLocalError", val |-> EmptyArr, warned |-> w]

Similarity ==
    /\ Running
    /\ \E o \in 1..Len(objs), im \in 0..Len(objs), m \in Methods :
        LET r == similarity(DataOf(o), im # 0, IF im = 0 THEN EmptyArr ELSE DataOf(im), m)
        IN /\ last' = [NoCall EXCEPT !.op = "similarity", !.self = o, !.arg = <<im, m>>,
                                     !.before = DataOf(o), !.exc = r.exc, !.val = r.val,
                                     !.warned = r.warned]
           /\ UNCHANGED <<objs, bufs, pout, run>>

\* ------------------------------------------------------------------ estimator

\* rows idx (1-based positions) of a 2-D array, and entries idx of a vector
Take(a, idx) ==
    Arr(<<Len(idx), NCols(a)>>, Flatten([i \in 1..Len(idx) |-> RowOf(a, idx[i])]))
TakeV(y, idx) == Arr(<<Len(idx)>>, [i \in 1..Len(idx) |-> y.e[idx[i]]])

\* The estimators are scikit-learn's.  The model's estimator is a linear
\* one fitted from scratch by every fit: the intercept is the mean label,
\* the coefficient of a voxel its covariance with the labels.
Fit(Xa, y) ==
    LET n == NRows(Xa)
        sy == SumSeq(Vals(y.e))
    IN [intercept |-> sy \div n,
        coef |-> [v \in 1..NCols(Xa) |->
                    (n * SumSeq([i \in 1..n |-> ColOf(Xa, v)[i].v * y.e[i].v])
                       - SumSeq(Vals(ColOf(Xa, v))) * sy) \div (n * n * Unit)]]

Unfitted == [intercept |-> 0, coef |-> << >>]

Score(m, x) == m.intercept + SumSeq([v \in 1..Len(x) |-> (m.coef[v] * x[v].v) \div Unit])

\* estimator.predict on the rows of Xa: a value for a regressor, a class
\* label (0 or 1) for a classifier
PredictRows(m, Xa, ptype) ==
    Arr(<<NRows(Xa)>>,
        [i \in 1..NRows(Xa) |->
            IF ptype = "classification"
            THEN (IF 2 * Score(m, RowOf(Xa, i)) >= Unit THEN Num(Unit) ELSE Num(0))
            ELSE Num(Score(m, RowOf(Xa, i)))])

\* estimator.decision_function: one signed distance per row
DecisionRows(m, Xa) ==
    Arr(<<NRows(Xa)>>, [i \in 1..NRows(Xa) |-> Num(Score(m, RowOf(Xa, i)) - Unit \div 2)])

Clamp(x) == IF x < 0 THEN 0 ELSE IF x > Unit THEN Unit ELSE x

\* estimator.predict_proba: rows x classes
ProbaRows(m, Xa) ==
    Arr(<<NRows(Xa), 2>>,
        Flatten([i \in 1..NRows(Xa) |->
                   <<Num(Unit - Clamp(Score(m, RowOf(Xa, i)))), Num(Clamp(Score(m, RowOf(Xa, i))))>>]))

\* nltools.utils.set_algorithm: one estimator object and its traits
Algorithms ==
    { [algorithm |-> "svr", prediction_type |-> "prediction", probability |-> FALSE],
      [algorithm |-> "ridge", prediction_type |-> "prediction", probability |-> FALSE],
      [algorithm |-> "svm", prediction_type |-> "classification", probability |-> FALSE],
      [algorithm |-> "svm", prediction_type |-> "classification", probability |-> TRUE],
      [algorithm |-> "ridgeClassifier", prediction_type |-> "classification", probability |-> FALSE],
      [algorithm |-> "logistic", prediction_type |-> "classification", probability |-> FALSE] }

\* the estimator object set_algorithm builds
NewEstimator == 1

set_algorithm(alg) ==
    [predictor |-> NewEstimator, algorithm |-> alg.algorithm,
     prediction_type |-> alg.prediction_type, probability |-> alg.probability]

\* line 439: algorithm in ['svm','ridgeClassifier','ridgeClassifierCV']
UsesBoundary(settings) == settings.algorithm \in {"svm", "ridgeClassifier", "ridgeClassifierCV"}

\* ------------------------------------------------------------------ cross-validation

\* Folds of the cv schemes the inputs use.
MaxFolds == 3

RECURSIVE SortedSeq(_)
SortedSeq(S) ==
    IF S = {} THEN << >>
    ELSE LET m == CHOOSE x \in S : \A y \in S : x <= y
         IN <<m>> \o SortedSeq(S \ {m})

\* sklearn KFold(n, k) without shuffling: k contiguous test blocks, the
\* first n % k one longer
KFoldTest(n, k, i) ==
    LET start == (i - 1) * (n \div k) + Min(i - 1, n % k) + 1
        len == (n \div k) + (IF i <= n % k THEN 1 ELSE 0)
    IN start..(start + len - 1)

Fold(n, test) == [train |-> SortedSeq((1..n) \ test), test |-> SortedSeq(test)]

\* subject ids of a leave-one-subject-out scheme over n rows: rows in pairs
SubjectId(n) == [i \in 1..n |-> (i + 1) \div 2]

CvDicts ==
    { [type |-> "None", n_folds |-> 0], [type |-> "loso", n_folds |-> 0] }
    \cup { [type |-> "kfolds", n_folds |-> k] : k \in 2..MaxFolds }

\* nltools.cross_validation.set_cv over n rows: the (train, test) pairs
\* in the order the scheme yields them
set_cv(cv, n) ==
    IF cv.type = "kfolds"
    THEN IF cv.n_folds > n THEN [exc |-> "ValueError", folds |-> << >>]
         ELSE [exc |-> "", folds |-> [i \in 1..cv.n_folds |-> Fold(n, KFoldTest(n, cv.n_folds, i))]]
    ELSE LET ids == SortedSeq(Range(SubjectId(n)))
         IN [exc |-> "",
             folds |-> [i \in 1..Len(ids) |-> Fold(n, {j \in 1..n : SubjectId(n)[j] = ids[i]})]]

\* ------------------------------------------------------------------ predict

\* the output dictionary: keys holds the keys that were set
NoOutput ==
    [keys |-> {}, Y |-> YList, yfit_all |-> EmptyArr, prob_all |-> EmptyArr,
     dist_from_hyperplane_all |-> EmptyArr, intercept |-> 0, weight_map |-> 0,
     yfit_xval |-> EmptyArr, intercept_xval |-> << >>, weight_map_xval |-> 0,
     prob_xval |-> EmptyArr, dist_from_hyperplane_xval |-> EmptyArr, mcr_all |-> NaN, mcr_xval |-> NaN, rmse_all |-> NaN,
     r_all |-> NaN, rmse_xval |-> NaN, r_xval |-> NaN]

\* The state of one predict call: the exception raised (if any), the output
\* dictionary, the estimator objects' fitted state, the data of the two
\* weight-map instances, the local list wt_map_xval, and the fits made so
\* far (which estimator object, on which rows, with what result).
NoRun ==
    [exc |-> "", out |-> NoOutput, est |-> <<Unfitted>>, wm |-> EmptyArr,
     wmx |-> EmptyArr, wt_map_xval |-> << >>, fits |-> << >>]

\* scikit-learn refuses labels that are not one per row, and an empty sample
Fittable(Xa, y) ==
    /\ ndim(Xa) = 2
    /\ y.py = "ndarray"
    /\ NRows(Xa) >= 1
    /\ Len(y.a.e) = NRows(Xa)
    /\ AllNum(Xa.e)

Zeros(n) == Arr(<<n>>, [i \in 1..n |-> Num(0)])

\* numpy's  target[idx] = value  for a 1-D target: value must broadcast to
\* the shape (len(idx),)
CanAssign(idx, value) ==
    \/ value.shape = <<Len(idx)>>
    \/ size(value) = 1
    \/ ndim(value) = 2 /\ value.shape[1] = 1 /\ value.shape[2] = Len(idx)

assign_at(target, idx, value) ==
    Arr(target.shape,
        [j \in 1..Len(target.e) |->
            IF \E i \in 1..Len(idx) : idx[i] = j
            THEN value.e[IF size(value) = 1 THEN 1 ELSE CHOOSE i \in 1..Len(idx) : idx[i] = j]
            ELSE target.e[j]])

\* lines 435 and 461: both names are bound to predictor_settings['predictor']
predictor_of(settings) == settings.predictor
predictor_cv_of(settings) == settings.predictor

\* lines 431-455: the fit on the whole sample
full_fit(data, Y, settings) ==
    LET e == predictor_of(settings)
        m == Fit(data, Y.a)
        o1 == [NoOutput EXCEPT !.keys = {"Y", "yfit_all", "intercept", "weight_map"},
                               !.Y = Y,
                               !.yfit_all = PredictRows(m, data, settings.prediction_type),
                               !.intercept = m.intercept]
        o2 == IF settings.prediction_type # "classification" THEN o1
              ELSE IF ~UsesBoundary(settings)
              THEN [o1 EXCEPT !.keys = @ \cup {"prob_all"}, !.prob_all = ProbaRows(m, data)]
              ELSE IF settings.algorithm = "svm" /\ settings.probability
              THEN [o1 EXCEPT !.keys = @ \cup {"dist_from_hyperplane_all", "prob_all"},
                              !.dist_from_hyperplane_all = DecisionRows(m, data),
                              !.prob_all = ProbaRows(m, data)]
              ELSE [o1 EXCEPT !.keys = @ \cup {"dist_from_hyperplane_all"},
                              !.dist_from_hyperplane_all = DecisionRows(m, data)]
    IN IF ~Fittable(data, Y) THEN [NoRun EXCEPT !.exc = "ValueError", !.out.keys = {"Y"}, !.out.Y = Y]
       ELSE [NoRun EXCEPT !.out = o2,
                          !.est[e] = m,
                          !.wm = Arr(<<Len(m.coef)>>, [v \in 1..Len(m.coef) |-> Num(m.coef[v])]),
                          !.fits = <<[est |-> e, fold |-> 0, model |-> m]>>]

\* lines 462-472: the cross-validated entries before the first fold.  The
\* distances of a decision-boundary classifier go to a local variable, not
\* to the output dictionary.
cv_init(st, Y, settings) ==
    LET o1 == [st.out EXCEPT !.keys = @ \cup {"yfit_xval", "intercept_xval", "weight_map_xval"},
                             !.yfit_xval = st.out.yfit_all,
                             !.intercept_xval = << >>]
        o2 == IF settings.prediction_type = "classification"
                 /\ (~UsesBoundary(settings) \/ (settings.algorithm = "svm" /\ settings.probability))
              THEN [o1 EXCEPT !.keys = @ \cup {"prob_xval"}, !.prob_xval = Zeros(Len(Y.a.e))]
              ELSE o1
    IN [st EXCEPT !.out = o2, !.wmx = st.wm, !.wt_map_xval = << >>]

\* a list that grows at the front
list_push_front(xs, x) == <<x>> \o xs

\* lines 484 and 492: list.append
list_append(xs, x) == Append(xs, x)

\* a fold fitted on every row
fold_sample_all(data, Y, f) == [X |-> data, y |-> Y.a]

\* line 475: the rows and labels a fold is fitted on
fold_sample(data, Y, f) == [X |-> Take(data, f.train), y |-> TakeV(Y.a, f.train)]

\* lines 475-493: one pass of the loop
fold_step(st, data, Y, settings, f, i) ==
    LET e == predictor_cv_of(settings)
        smp == fold_sample(data, Y, f)
        m == Fit(smp.X, smp.y)
        test == Take(data, f.test)
        s1 == [st EXCEPT !.est[e] = m,
                         !.fits = Append(@, [est |-> e, fold |-> i, model |-> m]),
                         !.out.yfit_xval = assign_at(@, f.test, PredictRows(m, test, settings.prediction_type))]
        s2 == IF settings.prediction_type # "classification" THEN s1
              ELSE IF ~UsesBoundary(settings)
              THEN IF CanAssign(f.test, ProbaRows(m, test))
                   THEN [s1 EXCEPT !.out.prob_xval = assign_at(@, f.test, ProbaRows(m, test))]
                   ELSE [s1 EXCEPT !.exc = "ValueError"]
              ELSE IF "dist_from_hyperplane_xval" \notin s1.out.keys
              THEN [s1 EXCEPT !.exc = "KeyError"]
              ELSE LET d == [s1 EXCEPT !.out.dist_from_hyperplane_xval =
                                         assign_at(@, f.test, DecisionRows(m, test))]
                   IN IF ~(settings.algorithm = "svm" /\ settings.probability) THEN d
                      ELSE IF CanAssign(f.test, ProbaRows(m, test))
                      THEN [d EXCEPT !.out.prob_xval = assign_at(@, f.test, ProbaRows(m, test))]
                      ELSE [d EXCEPT !.exc = "ValueError"]
        wts == list_append(s2.wt_map_xval, s2.est[e].coef)
    IN IF NRows(smp.X) = 0 THEN [st EXCEPT !.exc = "ValueError"]
       ELSE IF s2.exc # "" THEN s2
       ELSE [s2 EXCEPT !.out.intercept_xval = list_append(@, s2.est[e].intercept),
                       !.wt_map_xval = wts,
                       !.wmx = Arr(<<Len(wts), Len(wts[1])>>,
                                   Flatten([k \in 1..Len(wts) |->
                                              [v \in 1..Len(wts[k]) |-> Num(wts[k][v])]]))]

\* line 474: for train, test in cv
RECURSIVE fold_loop(_, _, _, _, _, _)
fold_loop(st, data, Y, settings, folds, i) ==
    IF i > Len(folds) \/ st.exc # "" THEN st
    ELSE fold_loop(fold_step(st, data, Y, settings, folds[i], i), data, Y, settings, folds, i + 1)

\* np.mean(a == b)
Accuracy(a, b) == Num((Unit * Cardinality({i \in 1..Len(a.e) : a.e[i] = b.e[i]})) \div Len(a.e))

\* np.sqrt(np.mean((a - b) ** 2))
Rmse(a, b) ==
    Num(ISqrt(SumSeq([i \in 1..Len(a.e) |-> (a.e[i].v - b.e[i].v) * (a.e[i].v - b.e[i].v)])
              \div Len(a.e)))

\* np.corrcoef(a, b)[0,1]: NaN when either is constant
Corr(a, b) ==
    LET n == Len(a.e)
        num == n * SumSeq([i \in 1..n |-> a.e[i].v * b.e[i].v])
               - SumSeq(Vals(a.e)) * SumSeq(Vals(b.e))
        den == ISqrt(Dev(a.e)) * ISqrt(Dev(b.e))
    IN IF den = 0 THEN NaN ELSE Num((Unit * num) \div den)

\* lines 496-511
metrics(st, Y, settings, cv) ==
    LET o == st.out
    IN IF settings.prediction_type = "classification"
       THEN IF cv.type = "None"
            THEN [st EXCEPT !.out.keys = @ \cup {"mcr_all"},
                            !.out.mcr_all = Accuracy(o.yfit_all, Y.a)]
            ELSE [st EXCEPT !.out.keys = @ \cup {"mcr_all", "mcr_xval"},
                            !.out.mcr_all = Accuracy(o.yfit_all, Y.a),
                            !.out.mcr_xval = Accuracy(o.yfit_xval, Y.a)]
       ELSE IF cv.type = "None"
            THEN [st EXCEPT !.out.keys = @ \cup {"rmse_all", "r_all"},
                            !.out.rmse_all = Rmse(o.yfit_all, Y.a),
                            !.out.r_all = Corr(Y.a, o.yfit_all)]
            ELSE [st EXCEPT !.out.keys = @ \cup {"rmse_all", "r_all", "rmse_xval", "r_xval"},
                            !.out.rmse_all = Rmse(o.yfit_all, Y.a),
                            !.out.r_all = Corr(Y.a, o.yfit_all),
                            !.out.rmse_xval = Rmse(o.yfit_xval, Y.a),
                            !.out.r_xval = Corr(Y.a, o.yfit_xval)]

\* lines 514-525: the plots read output['yfit_xval'], which exists only
\* after cross-validation, and self.prediction_type, an attribute no
\* Brain_Data instance has
plot_step(st, settings, plot) ==
    IF ~plot THEN st
    ELSE IF settings.prediction_type = "prediction"
    THEN IF "yfit_xval" \in st.out.keys THEN st ELSE [st EXCEPT !.exc = "KeyError"]
    ELSE [st EXCEPT !.exc = "AttributeError"]

\* lines 423-527
predict(data, Y, alg, cv, plot) ==
    LET settings == set_algorithm(alg)
        s1 == full_fit(data, Y, settings)
        c == set_cv(cv, NRows(data))
        s2 == IF s1.exc # "" \/ cv.type = "None" THEN s1
              ELSE IF c.exc # "" THEN [s1 EXCEPT !.exc = c.exc]
              ELSE fold_loop(cv_init(s1, Y, settings), data, Y, settings, c.folds, 1)
        s3 == IF s2.exc # "" THEN s2 ELSE metrics(s2, Y, settings, cv)
    IN IF s3.exc # "" THEN s3 ELSE plot_step(s3, settings, plot)

\* The frame of the predict call under way: its arguments, the folds the
\* scheme yields, the loop's position and the call's state.
NoFrame ==
    [active |-> FALSE, self |-> 0,
     alg |-> [algorithm |-> "", prediction_type |-> "", probability |-> FALSE],
     cv |-> [type |-> "None", n_folds |-> 0], plot |-> FALSE,
     folds |-> << >>, i |-> 0, st |-> NoRun]

\* predict raised: the call is over and returned nothing
PredictRaised(st) ==
    /\ last' = [last EXCEPT !.exc = st.exc, !.fits = st.fits]
    /\ run' = NoFrame
    /\ pout' = None
    /\ UNCHANGED <<objs, bufs>>

\* lines 423-472: the full-sample fit and the set-up of cross-validation
PredictBegin ==
    /\ Running
    /\ \E o \in 1..Len(objs), alg \in Algorithms, cv \in CvDicts, plot \in BOOLEAN :
         LET c == [NoCall EXCEPT !.op = "predict", !.self = o, !.arg = <<alg, cv, plot>>,
                                 !.before = DataOf(o)]
             s1 == full_fit(DataOf(o), objs[o].Y, set_algorithm(alg))
             cvs == set_cv(cv, NRows(DataOf(o)))
             fr == [NoFrame EXCEPT !.active = TRUE, !.self = o, !.alg = alg, !.cv = cv,
                                   !.plot = plot, !.i = 1]
         IN /\ Len(objs) + (IF cv.type = "None" THEN 1 ELSE 2) <= MaxObjs
            /\ UNCHANGED <<objs, bufs>>
            /\ IF s1.exc # "" \/ (cv.type # "None" /\ cvs.exc # "")
               THEN /\ last' = [c EXCEPT !.exc = IF s1.exc # "" THEN s1.exc ELSE cvs.exc,
                                         !.fits = s1.fits]
                    /\ pout' = None
                    /\ UNCHANGED run
               ELSE /\ last' = c
                    /\ pout' = None
                    /\ run' = IF cv.type = "None" THEN [fr EXCEPT !.st = s1]
                              ELSE [fr EXCEPT !.st = cv_init(s1, objs[o].Y, set_algorithm(alg)),
                                              !.folds = cvs.folds]

\* lines 474-493: one pass of the loop over the folds
PredictFold ==
    /\ run.active
    /\ run.i <= Len(run.folds)
    /\ LET st == fold_step(run.st, DataOf(run.self), objs[run.self].Y,
                           set_algorithm(run.alg), run.folds[run.i], run.i)
       IN IF st.exc # "" THEN PredictRaised(st)
          ELSE /\ run' = [run EXCEPT !.st = st, !.i = @ + 1]
               /\ UNCHANGED <<objs, bufs, last, pout>>

\* lines 495-527: the metrics, the plots and the return.  The weight maps
\* are new instances, deep copies of self with the data replaced (lines 449
\* and 464).
PredictEnd ==
    /\ run.active
    /\ run.i > Len(run.folds)
    /\ LET o == run.self
           nocv == run.cv.type = "None"
           st == plot_step(metrics(run.st, objs[o].Y, set_algorithm(run.alg), run.cv),
                           set_algorithm(run.alg), run.plot)
           wm == Brain_Data(Len(bufs) + 1, objs[o].Y, objs[o].X)
           wmx == Brain_Data(Len(bufs) + 2, objs[o].Y, objs[o].X)
       IN IF st.exc # "" THEN PredictRaised(st)
          ELSE /\ last' = [last EXCEPT !.fits = st.fits,
                                       !.ret = IF nocv THEN <<Len(objs) + 1>>
                                               ELSE <<Len(objs) + 1, Len(objs) + 2>>]
               /\ bufs' = IF nocv THEN Append(bufs, st.wm) ELSE bufs \o <<st.wm, st.wmx>>
               /\ objs' = IF nocv THEN Append(objs, wm) ELSE objs \o <<wm, wmx>>
               /\ pout' = Some([st.out EXCEPT !.weight_map = Len(objs) + 1,
                                              !.weight_map_xval = IF nocv THEN 0 ELSE Len(objs) + 2])
               /\ run' = NoFrame

\* ------------------------------------------------------------------ specification

Init ==
    /\ objs = << >>
    /\ bufs = << >>
    /\ last = NoCall
    /\ pout = None
    /\ run = NoFrame

Next ==
    \/ Construct
    \/ GetItem
    \/ Mean
    \/ Std
    \/ Empty
    \/ AppendTo
    \/ TTest
    \/ Similarity

Spec == Init /\ [][Next]_vars

\* Instances built by the constructor and derived by slicing, mean, std,
\* append and ttest only.
NextDerive ==
    \/ Construct
    \/ GetItem
    \/ Mean
    \/ Std
    \/ AppendTo
    \/ TTest

SpecDerive == Init /\ [][NextDerive]_vars

\* Prediction on constructed instances.
NextPredict ==
    \/ Construct
    \/ PredictBegin
    \/ PredictFold
    \/ PredictEnd

SpecPredict == Init /\ [][NextPredict]_vars

\* ------------------------------------------------------------------ claims

\* images and voxels of an array: a 1-D array is a single image
Rows(a) == IF size(a) = 0 THEN 0 ELSE IF ndim(a) = 2 THEN a.shape[1] ELSE 1
Voxels(a) == IF ndim(a) = 2 THEN a.shape[2] ELSE IF ndim(a) = 1 THEN a.shape[1] ELSE 1

IsImages(a) == ndim(a) \in {1, 2} /\ size(a) > 0

\* C3: append(A, B) of non-empty 1-D or 2-D operands succeeds iff their
\* voxel counts match; on success the result holds A's rows then B's rows,
\* A.rows + B.rows in all, columns in order; on a mismatch it raises the
\* shape-mismatch error (ValueError).
C3_AppendIffVoxelsMatch ==
    (last.op = "append" /\ IsImages(last.before) /\ IsImages(DataOf(last.arg)))
    => LET A == last.before
           B == DataOf(last.arg)
       IN IF Voxels(A) = Voxels(B)
          THEN /\ last.exc = ""
               /\ DataOf(last.ret[1]) = Arr(<<Rows(A) + Rows(B), Voxels(A)>>, A.e \o B.e)
          ELSE last.exc = "ValueError"

YPresent(y) == y.py # "list" /\ size(y.a) > 0
XPresent(x) == XSize(x) > 0

\* C4: in every instance, labels that are present are as many as the data
\* rows and a design that is present has as many rows as the data; a
\* constructor call with a mismatching Y or X raises.
C4_RowsAgree ==
    /\ \A o \in 1..Len(objs) :
         /\ YPresent(objs[o].Y) => size(objs[o].Y.a) = Rows(DataOf(o))
         /\ XPresent(objs[o].X) => objs[o].X.rows = Rows(DataOf(o))
    /\ (last.op = "__init__" /\ last.exc = "")
         => /\ last.arg[2].some => Len(last.arg[2].v) = NRows(last.arg[1])
            /\ last.arg[3].some => last.arg[3].v.rows = NRows(last.arg[1])

\* C5: ttest with {'fdr': q} raises the not-implemented error; it returns
\* no result.
C5_FdrRaises ==
    (last.op = "ttest" /\ last.arg.k = "fdr") => last.exc = "NotImplementedError"

\* C7: no two instances share a data buffer.
C7_NoSharedBuffer ==
    \A i, j \in 1..Len(objs) : i # j => objs[i].data # objs[j].data

\* C9: similarity of a matrix with a single image of another voxel count,
\* by dot product or correlation, prints the warning and raises the
\* shape-mismatch error (ValueError); it returns nothing.
C9_MismatchWarnsAndRaises ==
    (/\ last.op = "similarity"
     /\ last.arg[1] # 0
     /\ last.arg[2] \in {"dot_product", "correlation"}
     /\ ndim(last.before) = 2
     /\ NRows(last.before) > 0
     /\ ndim(DataOf(last.arg[1])) = 1
     /\ size(DataOf(last.arg[1])) > 0
     /\ Voxels(last.before) # Voxels(DataOf(last.arg[1])))
    => (last.warned /\ last.exc = "ValueError")

CurFits == IF run.active THEN run.st.fits ELSE last.fits

\* the arguments of that call
CallData == last.before
CallY == objs[last.self].Y
CallAlg == last.arg[1]
CallCv == last.arg[2]
CallPlot == last.arg[3]
CallFolds == set_cv(CallCv, NRows(CallData)).folds

\* C1: the estimator objects fitted for the whole sample and for the folds
\* of one predict call are pairwise distinct.
C1_FreshEstimatorPerFold ==
    last.op = "predict"
    => \A i, j \in 1..Len(CurFits) : i # j => CurFits[i].est # CurFits[j].est

\* data with the rows at idx changed: each element moved by d
Perturb(a, idx, d) ==
    Arr(a.shape,
        [x \in 1..Len(a.e) |->
            IF \E i \in 1..Len(idx) : idx[i] = ((x - 1) \div NCols(a)) + 1
            THEN Num(a.e[x].v + d) ELSE a.e[x]])

Shifts == {Unit, -3 * Unit}

\* the output of the call so far: of the run under way, or what it returned
HasOut == last.op = "predict" /\ (run.active \/ pout.some)
CurOut == IF run.active THEN run.st.out ELSE pout.v

\* C2: every fold's estimator is the fit of that fold's training rows and
\* labels alone; the values at the fold's test positions of yfit_xval are
\* that estimator's predictions; and the same call on data whose rows at the
\* fold's test positions are changed fits the same estimator for the fold.
C2_NoLeakage ==
    (last.op = "predict" /\ CallCv.type # "None")
    => \A n \in 1..Len(CurFits) :
         CurFits[n].fold >= 1
         => LET f == CallFolds[CurFits[n].fold]
            IN /\ CurFits[n].model = Fit(Take(CallData, f.train), TakeV(CallY.a, f.train))
               /\ HasOut
                    => \A j \in 1..Len(f.test) :
                         CurOut.yfit_xval.e[f.test[j]]
                           = PredictRows(CurFits[n].model, Take(CallData, f.test),
                                         CallAlg.prediction_type).e[j]
               /\ \A d \in Shifts :
                    LET other == predict(Perturb(CallData, f.test, d), CallY, CallAlg,
                                         CallCv, CallPlot)
                    IN /\ Len(other.fits) >= n
                       /\ other.fits[n].model = CurFits[n].model

\* a cross-validated call returned, and changing a fold's test rows changes
\* the fit on the whole sample
C2_Witness ==
    /\ last.op = "predict" /\ ~run.active /\ pout.some /\ CallCv.type # "None"
    /\ \E n \in 1..Len(CurFits) :
         /\ CurFits[n].fold >= 1
         /\ \E d \in Shifts :
              Fit(Perturb(CallData, CallFolds[CurFits[n].fold].test, d), CallY.a) # CurFits[1].model

\* C6: a predict call with plotting ends as the same call without plotting:
\* it raises the same or returns the same output and weight maps.
C6_PlotChangesNothing ==
    (last.op = "predict" /\ ~run.active /\ CallPlot)
    => LET r == predict(CallData, CallY, CallAlg, CallCv, FALSE)
       IN /\ last.exc = r.exc
          /\ last.exc = ""
               => /\ [pout.v EXCEPT !.weight_map = 0, !.weight_map_xval = 0] = r.out
                  /\ DataOf(pout.v.weight_map) = r.wm

\* the weight maps as the estimator holds them
CoefRow(m) == [v \in 1..Len(m.coef) |-> Num(m.coef[v])]

\* C8: after j folds intercept_xval holds j intercepts and the stacked
\* weight maps j rows, the i-th of each from the fit of the i-th fold's
\* training subset, in the order the scheme yields the folds; the call
\* returns them for all k folds.
C8_PerFoldInOrder ==
    (HasOut /\ CallCv.type # "None")
    => LET done == IF run.active THEN run.i - 1 ELSE Len(CallFolds)
           w == IF run.active THEN run.st.wmx ELSE DataOf(pout.v.weight_map_xval)
       IN /\ Len(CurOut.intercept_xval) = done
          /\ done >= 1 => w.shape = <<done, NCols(CallData)>>
          /\ \A i \in 1..done :
               LET m == Fit(Take(CallData, CallFolds[i].train), TakeV(CallY.a, CallFolds[i].train))
               IN /\ CurOut.intercept_xval[i] = m.intercept
                  /\ RowOf(w, i) = CoefRow(m)

\* a call over three folds returned, and its intercepts differ
C8_Witness ==
    /\ last.op = "predict" /\ ~run.active /\ pout.some
    /\ Len(pout.v.intercept_xval) = 3
    /\ pout.v.intercept_xval[1] # pout.v.intercept_xval[2]
    /\ DataOf(pout.v.weight_map_xval).shape[1] = 3

\* C11: a predict call with a cv scheme and a classifier that has a decision
\* boundary either returns an output whose dist_from_hyperplane_xval holds,
\* at the test positions of every fold, the distances the estimator fitted on
\* that fold's training subset gives, or raises before any fold is fitted.
C11_BoundaryCvCompletes ==
    (/\ last.op = "predict" /\ ~run.active
     /\ CallCv.type # "None"
     /\ UsesBoundary(set_algorithm(CallAlg)))
    => \/ /\ last.exc = "" /\ pout.some
          /\ "dist_from_hyperplane_xval" \in pout.v.keys
          /\ Len(pout.v.intercept_xval) = Len(CallFolds)
          /\ \A i \in 1..Len(CallFolds) :
               LET f == CallFolds[i]
                   m == Fit(Take(CallData, f.train), TakeV(CallY.a, f.train))
               IN \A j \in 1..Len(f.test) :
                    pout.v.dist_from_hyperplane_xval.e[f.test[j]]
                      = DecisionRows(m, Take(CallData, f.test)).e[j]
       \/ /\ last.exc # ""
          /\ \A n \in 1..Len(last.fits) : last.fits[n].fold = 0

====
